---- MODULE Spec2Model ----
(***************************************************************************)
(* The Supabase-backed todo application (todo-app/src/App.tsx): the        *)
(* client-side cache `todos` of the TodoApp component, its optimistic      *)
(* mutators with their rollbacks, the postgres_changes handler, the        *)
(* fetch-and-subscribe effect, and the AppContent view gate, together with *)
(* the hosted backend (table, change stream, authentication) as the        *)
(* environment.                                                            *)
(***************************************************************************)
EXTENDS Integers, Sequences, FiniteSets, TLC

\* ------------------------------------------------------------------ bounds
\* number of row ids the backend hands out
MaxId == 2
\* creates in flight at the same time
MaxCreates == 2
\* toggles, status changes, deletes and bulk clears in flight at the same time
MaxPending == 1
\* change-stream events in flight at the same time
MaxStream == 2
\* longest cache the model follows
MaxLen == 3
\* runs of the fetch-and-subscribe effect over a behaviour
MaxEffects == 2

\* writes on one record in flight at a time, where the same control is used again
\* before the answer of its first write
MaxOverlap == 2

\* ------------------------------------------------------------ data model
TodoStatus == {"todo", "in-progress", "done"}

Ids == 1..MaxId

\* a row of the todos table; user_id is the account of the rows this model is
\* mostly about
Todo(id, completed, status) ==
  [id |-> id, completed |-> completed, status |-> status, user_id |-> "u1"]

\* the row as a row of another account
OwnedBy(row, u) == [row EXCEPT !.user_id = u]

\* texts typed into the add form, as sequences of characters: empty, blank,
\* and one with a blank in front
Texts == {<<>>, <<" ">>, <<" ", "a">>}

\* String.prototype.trim(): blanks at both ends are dropped
RECURSIVE trimStart(_)
trimStart(s) == IF s # <<>> /\ Head(s) = " " THEN trimStart(Tail(s)) ELSE s

RECURSIVE trimEnd(_)
trimEnd(s) ==
  IF s # <<>> /\ s[Len(s)] = " " THEN trimEnd(SubSeq(s, 1, Len(s) - 1)) ELSE s

trim(s) == trimEnd(trimStart(s))

Todos == {Todo(i, c, s) : i \in Ids, c \in BOOLEAN, s \in TodoStatus}

\* `undefined`: the result of Array.find when nothing matches
Undefined == "undefined"

NoUser == "null"

Users == {"u1"}

\* the accounts that can sign in with credentials
Accounts == Users \cup {"u2"}

\* current.some((todo) => todo.id === id)
Some(current, id) == \E i \in 1..Len(current) : current[i].id = id

\* todos.find((t) => t.id === id): the first match as a one-element list,
\* the empty list for undefined
Find(list, id) ==
  IF Some(list, id)
  THEN <<list[CHOOSE i \in 1..Len(list) :
                 /\ list[i].id = id
                 /\ \A j \in 1..(i - 1) : list[j].id # id]>>
  ELSE <<>>

IsCompleted(t) == t.completed

\* ------------------------------------------- the functional state updaters
\* postgres_changes handler, INSERT branch
InsertHandlerNoCheck(current, new) == <<new>> \o current

InsertHandlerAppend(current, new) ==
  IF Some(current, new.id) THEN current ELSE Append(current, new)

InsertHandler(current, new) ==
  IF Some(current, new.id) THEN current ELSE <<new>> \o current

\* postgres_changes handler, UPDATE branch
UpdateHandlerMerge(current, new) ==
  [i \in 1..Len(current) |->
     IF current[i].id = new.id
     THEN [current[i] EXCEPT !.status = new.status]
     ELSE current[i]]

UpdateHandler(current, new) ==
  [i \in 1..Len(current) |-> IF current[i].id = new.id THEN new ELSE current[i]]

\* postgres_changes handler, DELETE branch
DeleteHandlerFirst(current, id) ==
  IF current = <<>> THEN current ELSE Tail(current)

DeleteHandler(current, id) ==
  LET keep(t) == t.id # id IN SelectSeq(current, keep)

\* addTodo, on success
AddUpdaterAppend(current, data) == Append(current, data)

AddUpdater(current, data) == <<data>> \o current

\* toggleTodo, optimistic update and revert
ToggleUpdater(current, id, completed) ==
  [i \in 1..Len(current) |->
     IF current[i].id = id
     THEN [current[i] EXCEPT !.completed = ~completed]
     ELSE current[i]]

ToggleRevertSkip(current, id, completed) == current

ToggleRevert(current, id, completed) ==
  [i \in 1..Len(current) |->
     IF current[i].id = id
     THEN [current[i] EXCEPT !.completed = completed]
     ELSE current[i]]

\* updateTodoStatus, optimistic update; the revert is the same map with oldStatus
StatusUpdaterCoupled(current, id, status) ==
  [i \in 1..Len(current) |->
     IF current[i].id = id
     THEN [current[i] EXCEPT !.status = status, !.completed = (status = "done")]
     ELSE current[i]]

StatusUpdater(current, id, status) ==
  [i \in 1..Len(current) |->
     IF current[i].id = id
     THEN [current[i] EXCEPT !.status = status]
     ELSE current[i]]

\* deleteTodo, optimistic removal and revert
DeleteUpdater(current, id) ==
  LET keep(t) == t.id # id IN SelectSeq(current, keep)

DeleteRevert(current, deletedTodo) == deletedTodo \o current

\* clearCompleted, optimistic removal and revert
ClearUpdaterInverse(current) == SelectSeq(current, IsCompleted)

ClearUpdater(current) ==
  LET keep(t) == ~t.completed IN SelectSeq(current, keep)

ClearRevertFirst(current, completedTodos) ==
  IF completedTodos = <<>> THEN current ELSE <<Head(completedTodos)>> \o current

ClearRevert(current, completedTodos) == completedTodos \o current

\* ------------------------------------ the local-only App of unnamed/part_002
\* addTodo: if (newTodo.trim() === '') return
LocalSubmits(text) == trim(text) # <<>>

\* addTodo: text: newTodo.trim()
LocalText(text) == trim(text)

\* addTodo: setTodos([todo, ...todos])
LocalAdd(list, todo) == <<todo>> \o list

\* toggleTodo: todos.map(todo => todo.id === id ? {...todo, completed: !todo.completed} : todo)
LocalToggle(list, id) ==
  [i \in 1..Len(list) |->
     IF list[i].id = id THEN [list[i] EXCEPT !.completed = ~list[i].completed]
     ELSE list[i]]

\* deleteTodo: todos.filter(todo => todo.id !== id)
LocalDelete(list, id) ==
  LET other(t) == t.id # id IN SelectSeq(list, other)

\* the Clear button: todos.filter(t => !t.completed)
LocalClear(list) ==
  LET open(t) == ~t.completed IN SelectSeq(list, open)

\* ----------------------------------------------------------------- state
VARIABLES
  supabaseUrl,      \* import.meta.env.VITE_SUPABASE_URL: TRUE when set
  supabaseAnonKey,  \* import.meta.env.VITE_SUPABASE_ANON_KEY: TRUE when set
  user,             \* useAuth().user
  authLoading,      \* useAuth().loading
  authPending,      \* credentials submitted, answer outstanding
  inst,             \* the mounted TodoApp instance, 0 when none is mounted: the
                    \* number of the effect run at its mount
  effects,          \* runs of the fetch-and-subscribe effect so far
  todos,            \* TodoApp state: the cache
  rendered,         \* the `todos` of the last render, which the handlers close over
  deferred,         \* whether React renders an update later than it applies it
  loading,          \* TodoApp state: loading
  newTodo,          \* TodoApp state: the text typed in the add form
  newTodoStatus,    \* TodoApp state: the status chosen in the add form
  channel,          \* the active subscriptions, each the number of the
                    \* effect run that created it
  fetches,          \* select requests in flight
  writes,           \* remote writes in flight, in the order they were issued
  db,               \* the backend's rows of the owner
  nextId,           \* the next row id the backend assigns
  stream,           \* change-stream events on their way to the subscribed callback
  track,            \* history kept: a subset of {"undo", "ideal", "form"}
  ideal,            \* history: the actions' pure transformations in issue order
  undo,             \* history: the cache before the one action in flight
  prev,             \* history: the cache before the last step
  ev                \* history: the last step, typing aside

configVars == <<supabaseUrl, supabaseAnonKey>>
authVars == <<user, authLoading, authPending>>
viewVars == <<inst, effects, deferred, loading, newTodo, newTodoStatus, channel>>
backendVars == <<db, nextId>>
vars == <<supabaseUrl, supabaseAnonKey, user, authLoading, authPending, inst, effects,
          todos, rendered, deferred, loading, newTodo, newTodoStatus, channel, fetches,
          writes,
          db, nextId, stream, track, ideal, undo, prev, ev>>

NoTodo == [id |-> 0, completed |-> FALSE, status |-> Undefined, user_id |-> NoUser]

Event(op, kind, id, rec) == [op |-> op, kind |-> kind, id |-> id, rec |-> rec]

\* the last step and the cache it started from
Step(op, kind, id, rec) == ev' = Event(op, kind, id, rec) /\ prev' = todos

\* a step that changes nothing: in the history only when form steps are kept
Noted(op, kind) ==
  IF "form" \in track THEN Step(op, kind, 0, NoTodo) ELSE UNCHANGED <<prev, ev>>

\* the last step was not one of the client
Away == ev' = Event("Away", "", 0, NoTodo) /\ prev' = <<>>

\* history of the issue-order transformations, dropped once the run is no longer
\* one of successful writes only
Ideal(newIdeal, stillClean) ==
  /\ track' = IF stillClean THEN track ELSE track \ {"ideal"}
  /\ ideal' = IF "ideal" \in track' THEN newIdeal ELSE <<>>

\* history of the cache before an action that is alone in flight
Undo(newUndo) == undo' = IF "undo" \in track THEN newUndo ELSE <<>>

\* what the handlers close over after a state update
Paint(newTodos) == IF deferred THEN rendered ELSE newTodos

\* export const hasSupabaseConfig = !!(supabaseUrl && supabaseAnonKey)
hasSupabaseConfigOr == supabaseUrl \/ supabaseAnonKey

hasSupabaseConfig == supabaseUrl /\ supabaseAnonKey

\* AppContent: which view is returned
AppContentOfLoadingFirst(config, aLoading, u) ==
  IF aLoading THEN "loading"
  ELSE IF ~config THEN "config"
  ELSE IF u = NoUser THEN "auth"
  ELSE "todo"

AppContentOf(config, aLoading, u) ==
  IF ~config THEN "config"
  ELSE IF aLoading THEN "loading"
  ELSE IF u = NoUser THEN "auth"
  ELSE "todo"

AppContent == AppContentOf(hasSupabaseConfig, authLoading, user)

\* ------------------------------------------------------- requests in flight
\* a supabase.from('todos') write: kind, the instance that issued it, whether the
\* backend has carried it out, and what the handler's closure keeps for the revert
Write(kind, id, completed, status, oldStatus, saved) ==
  [kind |-> kind, inst |-> inst, user |-> user, phase |-> "sent", id |-> id,
   completed |-> completed, status |-> status, oldStatus |-> oldStatus,
   saved |-> saved, text |-> <<>>]

RemoveAt(s, i) == [j \in 1..(Len(s) - 1) |-> IF j < i THEN s[j] ELSE s[j + 1]]

\* the subscription the backend publishes to, 0 when none is active
Active == IF channel = {} THEN 0 ELSE CHOOSE c \in channel : \A d \in channel : d <= c

\* payload of a postgres_changes event, on its way to the subscription `sub`
Payload(eventType, new, oldId) ==
  [eventType |-> eventType, new |-> new, old |-> oldId, sub |-> Active]

\* the row with an id
Row(id) == CHOOSE r \in db : r.id = id

HasRow(id) == \E r \in db : r.id = id

\* row level security: the rows an account can read, update and delete
Visible(rows, u) == {r \in rows : r.user_id = u}

CanSee(u, id) == \E r \in Visible(db, u) : r.id = id

\* all orders of a finite set
Perms(S) ==
  {s \in [1..Cardinality(S) -> S] : \A i, j \in 1..Cardinality(S) : s[i] = s[j] => i = j}

\* .order('created_at', { ascending: false }): ids are handed out in creation order
RECURSIVE OrderDesc(_)
OrderDesc(rows) ==
  IF rows = {} THEN <<>>
  ELSE LET newest == CHOOSE r \in rows : \A q \in rows : q.id <= r.id
       IN <<newest>> \o OrderDesc(rows \ {newest})

\* events reach the callback only through an active subscription, and only the
\* events of rows that pass its filter user_id=eq.${user.id}; the subscription
\* is made for the user of its effect run and removed when the user changes
Subscribed(owner) == channel # {} /\ owner = user

CanEmit(owner, n) == ~Subscribed(owner) \/ Len(stream) + n <= MaxStream

Emit(owner, events) == IF Subscribed(owner) THEN stream \o events ELSE stream

\* ----------------------------------------------- the fetch-and-subscribe effect
\* the cleanup of the latest effect run, supabase.removeChannel(channel): the
\* subscriptions after it
CleanupKeep(ch) == ch

Cleanup(ch) == ch \ {effects}

\* the effect body: if (!user) return; fetchTodos(); channel ... .subscribe()
EffectRuns(u) == u # NoUser

EffectChannel(u, run, ch) == IF EffectRuns(u) THEN ch \cup {run} ELSE ch

EffectFetches(u, instance, fs) ==
  IF EffectRuns(u)
  THEN Append(fs, [inst |-> instance, user |-> u, phase |-> "sent", data |-> <<>>])
  ELSE fs

\* the subscription's callback belongs to the instance that is mounted
Mounted(ch) == inst # 0 /\ ch >= inst

\* React after a change of the auth state: AppContent is rendered again and
\* TodoApp is mounted, kept (effect re-run, deps [user]) or unmounted
Reconcile(u, aLoading) ==
  LET old == AppContent
      new == AppContentOf(hasSupabaseConfig, aLoading, u)
      run == effects + 1
  IN  IF old # "todo" /\ new = "todo"
      THEN /\ effects < MaxEffects
           /\ effects' = run
           /\ inst' = run
           /\ todos' = <<>>
           /\ rendered' = <<>>
           /\ loading' = TRUE
           /\ newTodo' = <<>>
           /\ newTodoStatus' = "todo"
           /\ channel' = EffectChannel(u, run, channel)
           /\ fetches' = EffectFetches(u, run, fetches)
      ELSE IF old = "todo" /\ new # "todo"
      THEN /\ inst' = 0
           /\ todos' = <<>>
           /\ rendered' = <<>>
           /\ loading' = TRUE
           /\ newTodo' = <<>>
           /\ newTodoStatus' = "todo"
           /\ channel' = Cleanup(channel)
           /\ UNCHANGED <<effects, fetches>>
      ELSE IF old = "todo" /\ new = "todo"
      THEN /\ effects < MaxEffects
           /\ effects' = run
           /\ channel' = EffectChannel(u, run, Cleanup(channel))
           /\ fetches' = EffectFetches(u, inst, fetches)
           /\ UNCHANGED <<inst, todos, rendered, loading, newTodo, newTodoStatus>>
      ELSE UNCHANGED <<inst, effects, todos, rendered, loading, newTodo, newTodoStatus, channel,
                       fetches>>

\* ------------------------------------------------------------ authentication
AuthStep(op, u, aLoading, pending) ==
  /\ user' = u
  /\ authLoading' = aLoading
  /\ authPending' = pending
  /\ Reconcile(u, aLoading)
  /\ Ideal(IF inst' = inst THEN ideal ELSE <<>>, TRUE)
  /\ Undo(IF inst' = inst THEN undo ELSE <<>>)
  /\ Step(op, IF fetches' # fetches THEN "effect" ELSE "", 0, NoTodo)
  /\ UNCHANGED <<supabaseUrl, supabaseAnonKey, deferred, writes, db, nextId, stream>>

\* the stored session is resolved at startup
SessionResolved == \E u \in Users \cup {NoUser} :
  /\ authLoading
  /\ AuthStep("SessionResolved", u, FALSE, authPending)

\* AuthModal: sign-in or sign-up submitted
SubmitCredentials ==
  /\ AppContent = "auth"
  /\ ~authPending
  /\ AuthStep("SubmitCredentials", user, authLoading, TRUE)

AuthAccepted == \E u \in Users :
  /\ authPending
  /\ AuthStep("AuthAccepted", u, authLoading, FALSE)

\* the credentials accepted are those of the second account
AuthAcceptedOther == \E u \in Accounts \ Users :
  /\ authPending
  /\ AuthStep("AuthAccepted", u, authLoading, FALSE)

AuthRejected ==
  /\ authPending
  /\ AuthStep("AuthRejected", user, authLoading, FALSE)

\* the Log Out button of TodoApp
SignOut ==
  /\ inst # 0
  /\ ~loading
  /\ AuthStep("SignOut", NoUser, authLoading, authPending)

\* the backend ends the session
SessionExpired ==
  /\ ~authLoading
  /\ user # NoUser
  /\ AuthStep("SessionExpired", NoUser, authLoading, authPending)

\* the session is refreshed: a new user object for the same user
UserRefreshed ==
  /\ ~authLoading
  /\ user # NoUser
  /\ AuthStep("UserRefreshed", user, authLoading, authPending)

\* ------------------------------------------------------------- fetchTodos
\* the backend answers the select with the rows as they are now
FetchServed == \E i \in 1..Len(fetches) :
  /\ fetches[i].phase = "sent"
  /\ fetches' = [fetches EXCEPT ![i].phase = "ok",
                                ![i].data = OrderDesc(Visible(db, fetches[i].user))]
  /\ UNCHANGED <<configVars, authVars, viewVars, todos, rendered, writes, backendVars,
                 stream, track, ideal, undo>>
  /\ Away

\* fetchTodos after the await: if (error) log, else setTodos(data || [])
FetchResultClear(current, data, error) == IF error THEN <<>> ELSE data

FetchResult(current, data, error) == IF error THEN current ELSE data

\* fetchTodos: setLoading(false), after the if and the else alike
LoadingOnSuccessOnly(was, error) == IF error THEN was ELSE FALSE

LoadingAfterFetch(was, error) == FALSE

\* fetchTodos after the await, setLoading(false) included; the setters of an
\* instance that is no longer mounted do nothing. The list and its buttons are
\* on the screen only once a render has seen loading = false, and that render
\* sees the cache as it is
FetchSettled(i, error) ==
  LET f == fetches[i] IN
  /\ fetches' = RemoveAt(fetches, i)
  /\ IF f.inst = inst
     THEN /\ todos' = FetchResult(todos, f.data, error)
          /\ rendered' = IF loading THEN todos' ELSE Paint(todos')
          /\ loading' = LoadingAfterFetch(loading, error)
          /\ Ideal(todos', loading)
          /\ Undo(<<>>)
     ELSE UNCHANGED <<todos, rendered, loading, track, ideal, undo>>
  /\ Step(IF error THEN "FetchErr" ELSE "FetchOk", "", f.inst, NoTodo)
  /\ UNCHANGED <<configVars, authVars, inst, effects, deferred, newTodo, newTodoStatus, channel,
                 writes, backendVars, stream>>

FetchDone == \E i \in 1..Len(fetches) :
  /\ fetches[i].phase = "ok"
  /\ FetchSettled(i, FALSE)

\* the select is rejected or lost
FetchFailed == \E i \in 1..Len(fetches) :
  /\ fetches[i].phase = "sent"
  /\ FetchSettled(i, TRUE)

\* React renders TodoApp with the current state
Render ==
  /\ inst # 0
  /\ rendered # todos
  /\ rendered' = todos
  /\ Step("Render", "", 0, NoTodo)
  /\ UNCHANGED <<configVars, authVars, viewVars, todos, fetches, writes, backendVars,
                 stream, track, ideal, undo>>

\* ------------------------------------------------------------ user actions
\* the todo view is shown and not in its loading state
Shown == inst # 0 /\ ~loading

InFlight(kinds) == Cardinality({i \in 1..Len(writes) : writes[i].kind \in kinds})

CanCreate == Shown /\ InFlight({"add"}) < MaxCreates

CanAct == Shown /\ InFlight({"toggle", "status", "delete", "clear"}) < MaxPending

\* a ticket for a create whose id the backend has not assigned yet
Ticket ==
  0 - (CHOOSE k \in 1..(MaxCreates + 1) :
         /\ \A i \in 1..Len(writes) : writes[i].id # 0 - k
         /\ \A j \in 1..(k - 1) : \E i \in 1..Len(writes) : writes[i].id = 0 - j)

Flip(list, id) ==
  [i \in 1..Len(list) |->
     IF list[i].id = id THEN [list[i] EXCEPT !.completed = ~@] ELSE list[i]]

OldStatusOf(list, id) ==
  IF Find(list, id) = <<>> THEN Undefined ELSE Find(list, id)[1].status

\* the part of a user action every handler shares: the write goes out
Issue(w, newIdeal) ==
  /\ writes' = Append(writes, w)
  /\ rendered' = Paint(todos')
  /\ Ideal(newIdeal, TRUE)
  /\ Undo(IF writes = <<>> THEN <<todos>> ELSE <<>>)
  /\ UNCHANGED <<configVars, authVars, viewVars, fetches, backendVars, stream>>

\* the Select of the add form: setNewTodoStatus(value)
SelectNewStatus == \E status \in TodoStatus :
  /\ Shown
  /\ status # newTodoStatus
  /\ newTodoStatus' = status
  /\ Step("SelectNewStatus", "", 0, NoTodo)
  /\ UNCHANGED <<configVars, authVars, inst, effects, deferred, loading, newTodo, channel,
                 todos, rendered, fetches, writes, backendVars, stream, track, ideal, undo>>

\* the Input of the add form: onChange={(e) => setNewTodo(e.target.value)}
Typed(text) ==
  /\ Shown
  /\ text # newTodo
  /\ newTodo' = text
  /\ UNCHANGED <<configVars, authVars, inst, effects, deferred, loading, newTodoStatus,
                 channel, todos, rendered, fetches, writes, backendVars, stream, track,
                 ideal, undo, prev, ev>>

\* the user types a text that is more than blanks
setNewTodo == \E text \in Texts :
  /\ trim(text) # <<>>
  /\ Typed(text)

\* the user empties the input or leaves only blanks in it
setNewTodoBlank == \E text \in Texts :
  /\ trim(text) = <<>>
  /\ Typed(text)

\* if (newTodo.trim() === '' || !user) return
SubmitsRaw(text, u) == ~(text = <<>> \/ u = NoUser)

Submits(text, u) == ~(trim(text) = <<>> \/ u = NoUser)

\* the text of the insert: text: newTodo.trim()
InsertText(text) == trim(text)

\* addTodo, from the Add button or the Enter key: nothing happens without a text
\* or a user; otherwise the insert is awaited first and the cache is touched on
\* its success only
addTodo ==
  IF Submits(newTodo, user)
  THEN /\ CanCreate
       /\ todos' = todos
       /\ Issue([Write("add", Ticket, FALSE, newTodoStatus, Undefined, <<>>)
                   EXCEPT !.text = InsertText(newTodo)],
                <<OwnedBy(Todo(Ticket, FALSE, newTodoStatus), user)>> \o ideal)
       /\ Step("addTodo", "add", Ticket, OwnedBy(Todo(Ticket, FALSE, newTodoStatus), user))
  ELSE /\ Shown
       /\ Noted("addTodo", "ignored")
       /\ UNCHANGED <<configVars, authVars, viewVars, todos, rendered, fetches, writes,
                      backendVars, stream, track, ideal, undo>>

\* toggleTodo(todo.id, todo.completed) from a rendered row
toggleTodo == \E r \in 1..Len(rendered) :
  LET id == rendered[r].id
      completed == rendered[r].completed
  IN  /\ CanAct
      /\ todos' = ToggleUpdater(todos, id, completed)
      /\ Issue(Write("toggle", id, completed, Undefined, Undefined, <<>>), Flip(ideal, id))
      /\ Step("toggleTodo", "toggle", id, rendered[r])

\* updateTodoStatus(todo.id, value) from the Select of a rendered row
updateTodoStatus == \E r \in 1..Len(rendered), status \in TodoStatus :
  LET id == rendered[r].id
      oldStatus == OldStatusOf(rendered, id)
  IN  /\ CanAct
      /\ status # rendered[r].status
      /\ todos' = StatusUpdater(todos, id, status)
      /\ Issue(Write("status", id, FALSE, status, oldStatus, <<>>),
               StatusUpdater(ideal, id, status))
      /\ Step("updateTodoStatus", "status", id, [rendered[r] EXCEPT !.status = status])

\* a write of this session on the record is in flight
Pending(id) == \E i \in 1..Len(writes) : writes[i].inst = inst /\ writes[i].id = id

Overlap(id) == Cardinality({i \in 1..Len(writes) : writes[i].id = id})

\* toggleTodo on a row whose earlier write is not answered yet: nothing disables
\* the checkbox meanwhile
toggleTodoPending == \E r \in 1..Len(rendered) :
  LET id == rendered[r].id
      completed == rendered[r].completed
  IN  /\ Shown
      /\ Pending(id)
      /\ Overlap(id) < MaxOverlap
      /\ todos' = ToggleUpdater(todos, id, completed)
      /\ Issue(Write("toggle", id, completed, Undefined, Undefined, <<>>), Flip(ideal, id))
      /\ Step("toggleTodo", "toggle", id, rendered[r])

\* updateTodoStatus on a row whose earlier write is not answered yet
updateTodoStatusPending == \E r \in 1..Len(rendered), status \in TodoStatus :
  LET id == rendered[r].id
      oldStatus == OldStatusOf(rendered, id)
  IN  /\ Shown
      /\ Pending(id)
      /\ Overlap(id) < MaxOverlap
      /\ status # rendered[r].status
      /\ todos' = StatusUpdater(todos, id, status)
      /\ Issue(Write("status", id, FALSE, status, oldStatus, <<>>),
               StatusUpdater(ideal, id, status))
      /\ Step("updateTodoStatus", "status", id, [rendered[r] EXCEPT !.status = status])

\* deleteTodo(todo.id) from a rendered row
deleteTodo == \E r \in 1..Len(rendered) :
  LET id == rendered[r].id
      deletedTodo == Find(rendered, id)
  IN  /\ CanAct
      /\ todos' = DeleteUpdater(todos, id)
      /\ Issue(Write("delete", id, FALSE, Undefined, Undefined, deletedTodo),
               DeleteUpdater(ideal, id))
      /\ Step("deleteTodo", "delete", id, rendered[r])

\* const completedCount = todos.filter((t) => t.completed).length
completedCount == Len(SelectSeq(rendered, IsCompleted))

\* const totalCount = todos.length
totalCount == Len(rendered)

\* {totalCount > 0 && ( the progress bar and the percentage )}
ProgressShownAlways(total) == TRUE

ProgressShown(total) == total > 0

\* Math.round((completedCount / totalCount) * 100): the nearest integer, a half
\* rounded up
Percentage(completed, total) == (200 * completed + total) \div (2 * total)

\* {completedCount > 0 && ( the Clear completed button )}
ClearOffered(completed) == completed > 0

\* clearCompleted: the button is rendered when completedCount > 0
clearCompleted ==
  LET completedTodos == SelectSeq(rendered, IsCompleted) IN
  /\ CanAct
  /\ completedTodos # <<>>
  /\ todos' = ClearUpdater(todos)
  /\ Issue(Write("clear", 0, FALSE, Undefined, Undefined, completedTodos),
           ClearUpdater(ideal))
  /\ Step("clearCompleted", "clear", 0, NoTodo)

\* ------------------------------------------------------------ the backend
SetRow(row) == (db \ {r \in db : r.id = row.id}) \cup {row}

SavedIds(w) == {w.saved[j].id : j \in 1..Len(w.saved)}

Retag(list, ticket, id) ==
  [i \in 1..Len(list) |->
     IF list[i].id = ticket THEN [list[i] EXCEPT !.id = id] ELSE list[i]]

\* steps of the backend and of other sessions leave the client alone
Quiet ==
  /\ Undo(IF writes = <<>> THEN <<>> ELSE undo)
  /\ Away
  /\ UNCHANGED <<configVars, authVars, viewVars, todos, rendered, fetches>>

\* the backend carries out a write: the table changes, the change is published
\* to the subscription, and the answer is on its way
Carry(i) ==
  LET w == writes[i] IN
  /\ w.phase = "sent"
  /\ \/ /\ w.kind = "add"
        /\ nextId <= MaxId
        /\ CanEmit(w.user, 1)
        /\ db' = db \cup {OwnedBy(Todo(nextId, FALSE, w.status), w.user)}
        /\ nextId' = nextId + 1
        /\ stream' = Emit(w.user, <<Payload("INSERT",
                                            OwnedBy(Todo(nextId, FALSE, w.status), w.user),
                                            0)>>)
        /\ writes' = [writes EXCEPT ![i].phase = "ok", ![i].id = nextId]
        /\ Ideal(IF w.inst = inst THEN Retag(ideal, w.id, nextId) ELSE ideal, TRUE)
     \/ /\ w.kind \in {"toggle", "status"}
        /\ CanSee(w.user, w.id)
        /\ CanEmit(w.user, 1)
        /\ LET row == IF w.kind = "toggle"
                      THEN [Row(w.id) EXCEPT !.completed = ~w.completed]
                      ELSE [Row(w.id) EXCEPT !.status = w.status]
           IN  /\ db' = SetRow(row)
               /\ stream' = Emit(w.user, <<Payload("UPDATE", row, w.id)>>)
        /\ writes' = [writes EXCEPT ![i].phase = "ok"]
        /\ UNCHANGED <<nextId, track, ideal>>
     \/ /\ w.kind = "delete"
        /\ CanSee(w.user, w.id)
        /\ CanEmit(w.user, 1)
        /\ db' = db \ {Row(w.id)}
        /\ stream' = Emit(w.user, <<Payload("DELETE", NoTodo, w.id)>>)
        /\ writes' = [writes EXCEPT ![i].phase = "ok"]
        /\ UNCHANGED <<nextId, track, ideal>>
     \/ /\ w.kind = "clear"
        /\ LET gone == {id \in SavedIds(w) : CanSee(w.user, id)} IN
           /\ CanEmit(w.user, Cardinality(gone))
           /\ db' = {r \in db : r.id \notin gone}
           /\ \E order \in Perms(gone) :
                stream' = Emit(w.user, [k \in 1..Cardinality(gone) |->
                                  Payload("DELETE", NoTodo, order[k])])
        /\ writes' = [writes EXCEPT ![i].phase = "ok"]
        /\ UNCHANGED <<nextId, track, ideal>>
     \/ /\ w.kind \in {"toggle", "status", "delete"}
        /\ ~CanSee(w.user, w.id)
        /\ writes' = [writes EXCEPT ![i].phase = "ok"]
        /\ UNCHANGED <<db, nextId, stream, track, ideal>>
  /\ Quiet

WriteServed == \E i \in 1..Len(writes) : Carry(i)

\* the backend carries out the writes in the order of the requests
WriteServedNext == \E i \in 1..Len(writes) :
  /\ \A k \in 1..(i - 1) : writes[k].phase = "ok"
  /\ Carry(i)

\* ---------------------------------------- the handlers after their await
\* what the rest of the handler does to the cache once the answer is there
OnResponseAlways(current, w, error) ==
  IF w.kind = "add"
  THEN IF error THEN current ELSE AddUpdater(current, OwnedBy(Todo(w.id, FALSE, w.status), w.user))
  ELSE IF w.kind = "toggle" THEN ToggleRevert(current, w.id, w.completed)
  ELSE IF w.kind = "status"
       THEN IF w.oldStatus # Undefined
            THEN StatusUpdater(current, w.id, w.oldStatus)
            ELSE current
  ELSE IF w.kind = "delete" THEN DeleteRevert(current, w.saved)
  ELSE IF w.kind = "clear" THEN ClearRevert(current, w.saved)
  ELSE current

OnResponse(current, w, error) ==
  IF ~error
  THEN IF w.kind = "add" THEN AddUpdater(current, OwnedBy(Todo(w.id, FALSE, w.status), w.user))
       ELSE current
  ELSE IF w.kind = "toggle" THEN ToggleRevert(current, w.id, w.completed)
  ELSE IF w.kind = "status"
       THEN IF w.oldStatus # Undefined
            THEN StatusUpdater(current, w.id, w.oldStatus)
            ELSE current
  ELSE IF w.kind = "delete" THEN DeleteRevert(current, w.saved)
  ELSE IF w.kind = "clear" THEN ClearRevert(current, w.saved)
  ELSE current

\* the requests in flight once a handler has returned: its one request is over
\* whatever the answer, and the handler sends no other
SettledRetry(ws, i, error) ==
  IF error THEN [ws EXCEPT ![i].phase = "sent"] ELSE RemoveAt(ws, i)

Settled(ws, i, error) == RemoveAt(ws, i)

\* addTodo's success branch: setNewTodo(''); setNewTodoStatus('todo')
ResetTextAlways(text, w, error) == IF w.kind = "add" THEN <<>> ELSE text

ResetText(text, w, error) == IF w.kind = "add" /\ ~error THEN <<>> ELSE text

ResetStatusKeep(status, w, error) == status

ResetStatus(status, w, error) == IF w.kind = "add" /\ ~error THEN "todo" ELSE status

\* the rest of a handler; the setters of an instance no longer mounted do nothing
WriteSettled(i, error) ==
  LET w == writes[i] IN
  /\ writes' = Settled(writes, i, error)
  /\ IF w.inst = inst
     THEN /\ todos' = OnResponse(todos, w, error)
          /\ Len(todos') <= MaxLen
          /\ rendered' = Paint(todos')
          /\ newTodo' = ResetText(newTodo, w, error)
          /\ newTodoStatus' = ResetStatus(newTodoStatus, w, error)
          /\ Ideal(ideal, ~error)
     ELSE UNCHANGED <<todos, rendered, newTodo, newTodoStatus, track, ideal>>
  /\ Undo(IF error /\ Len(writes) = 1 THEN undo ELSE <<>>)
  /\ Step(IF error THEN "WriteErr" ELSE "WriteOk", w.kind, w.id,
          IF w.kind = "add" /\ ~error THEN OwnedBy(Todo(w.id, FALSE, w.status), w.user) ELSE NoTodo)
  /\ UNCHANGED <<configVars, authVars, inst, effects, deferred, loading, channel, fetches,
                 backendVars, stream>>

\* the answer of a write the backend carried out
WriteDone == \E i \in 1..Len(writes) :
  /\ writes[i].phase = "ok"
  /\ WriteSettled(i, FALSE)

\* the write is rejected or lost: nothing changed at the backend
WriteFailed == \E i \in 1..Len(writes) :
  /\ writes[i].phase = "sent"
  /\ WriteSettled(i, TRUE)

\* the answers of the backend arrive in the order of the requests
WriteDoneNext ==
  /\ writes # <<>>
  /\ writes[1].phase = "ok"
  /\ WriteSettled(1, FALSE)

\* ------------------------------------------------- the postgres_changes handler
Handler(current, payload) ==
  IF payload.eventType = "INSERT" THEN InsertHandler(current, payload.new)
  ELSE IF payload.eventType = "UPDATE" THEN UpdateHandler(current, payload.new)
  ELSE IF payload.eventType = "DELETE" THEN DeleteHandler(current, payload.old)
  ELSE current

\* an event arrives. The client hands it to the callback of the subscription it
\* was published to, if that is still the active one; the callback's setter does
\* nothing when its instance is no longer mounted
ReachesAny(payload, ch) == ch # {}

Reaches(payload, ch) == payload.sub \in ch

Deliver ==
  /\ stream # <<>>
  /\ stream' = Tail(stream)
  /\ IF Reaches(Head(stream), channel) /\ Mounted(Active)
     THEN /\ todos' = Handler(todos, Head(stream))
          /\ Len(todos') <= MaxLen
          /\ rendered' = Paint(todos')
          /\ Ideal(<<>>, FALSE)
          /\ Undo(<<>>)
     ELSE UNCHANGED <<todos, rendered, track, ideal, undo>>
  /\ Step(Head(stream).eventType,
          IF Reaches(Head(stream), channel) THEN "handled" ELSE "late",
          IF Head(stream).eventType = "DELETE" THEN Head(stream).old ELSE Head(stream).new.id,
          Head(stream).new)
  /\ UNCHANGED <<configVars, authVars, viewVars, fetches, writes, backendVars>>

\* the realtime connection is closed from outside: nothing is published to the
\* session any more, and the code never looks at the channel's status
ChannelClosed ==
  /\ channel # {}
  /\ channel' = {}
  /\ Undo(IF writes = <<>> THEN <<>> ELSE undo)
  /\ Away
  /\ UNCHANGED <<configVars, authVars, inst, effects, deferred, loading, newTodo,
                 newTodoStatus, todos, rendered, fetches, writes, backendVars, stream,
                 track, ideal>>

\* --------------------------- other sessions of the account u1: its other tabs
OtherInsert ==
  /\ nextId <= MaxId
  /\ CanEmit("u1", 1)
  /\ db' = db \cup {Todo(nextId, FALSE, "todo")}
  /\ nextId' = nextId + 1
  /\ stream' = Emit("u1", <<Payload("INSERT", Todo(nextId, FALSE, "todo"), 0)>>)
  /\ Quiet
  /\ UNCHANGED <<writes, track, ideal>>

OtherWrite(row, new) ==
  /\ CanEmit("u1", 1)
  /\ db' = SetRow(new)
  /\ stream' = Emit("u1", <<Payload("UPDATE", new, row.id)>>)
  /\ Quiet
  /\ UNCHANGED <<writes, nextId, track, ideal>>

OtherToggle == \E row \in Visible(db, "u1") :
  OtherWrite(row, [row EXCEPT !.completed = ~@])

OtherStatus == \E row \in Visible(db, "u1"), status \in TodoStatus :
  /\ status # row.status
  /\ OtherWrite(row, [row EXCEPT !.status = status])

OtherDelete == \E row \in Visible(db, "u1") :
  /\ CanEmit("u1", 1)
  /\ db' = db \ {row}
  /\ stream' = Emit("u1", <<Payload("DELETE", NoTodo, row.id)>>)
  /\ Quiet
  /\ UNCHANGED <<writes, nextId, track, ideal>>

\* another tab clears its completed todos: one DELETE event per row, in any order
OtherClear ==
  LET gone == {row \in Visible(db, "u1") : row.completed} IN
  /\ gone # {}
  /\ CanEmit("u1", Cardinality(gone))
  /\ db' = db \ gone
  /\ \E order \in Perms(gone) :
       stream' = Emit("u1", [k \in 1..Cardinality(gone) |->
                         Payload("DELETE", NoTodo, order[k].id)])
  /\ Quiet
  /\ UNCHANGED <<writes, nextId, track, ideal>>

\* ------------------------------------------------------------ specification
Boot(tracking, later) ==
  /\ supabaseUrl \in BOOLEAN
  /\ supabaseAnonKey \in BOOLEAN
  /\ user = NoUser
  /\ authLoading = TRUE
  /\ authPending = FALSE
  /\ inst = 0
  /\ effects = 0
  /\ todos = <<>>
  /\ rendered = <<>>
  /\ deferred = later
  /\ loading = TRUE
  /\ newTodo = <<>>
  /\ newTodoStatus = "todo"
  /\ channel = {}
  /\ fetches = <<>>
  /\ writes = <<>>
  /\ db = {}
  /\ nextId = 1
  /\ stream = <<>>
  /\ track = tracking
  /\ ideal = <<>>
  /\ undo = <<>>
  /\ prev = <<>>
  /\ ev = Event("Init", "", 0, NoTodo)

Start(tracking) == Boot(tracking, FALSE)

Init == Start({})

Next ==
  \/ SessionResolved
  \/ SubmitCredentials
  \/ AuthAccepted
  \/ AuthAcceptedOther
  \/ AuthRejected
  \/ SignOut
  \/ SessionExpired
  \/ UserRefreshed
  \/ FetchServed
  \/ FetchDone
  \/ FetchFailed
  \/ SelectNewStatus
  \/ setNewTodo
  \/ setNewTodoBlank
  \/ addTodo
  \/ toggleTodo
  \/ updateTodoStatus
  \/ deleteTodo
  \/ clearCompleted
  \/ WriteServed
  \/ WriteDone
  \/ WriteFailed
  \/ Deliver
  \/ OtherInsert
  \/ OtherToggle
  \/ OtherStatus
  \/ OtherDelete
  \/ OtherClear

Spec == Init /\ [][Next]_vars

\* ------------------------------------------------------------- scenarios
\* one signed-in session that creates, toggles and deletes, with the answers of
\* its writes and their echo on the change stream
NextCreate ==
  \/ setNewTodo
  \/ SessionResolved
  \/ FetchServed
  \/ FetchDone
  \/ FetchFailed
  \/ addTodo
  \/ toggleTodo
  \/ deleteTodo
  \/ WriteServed
  \/ WriteDone
  \/ WriteFailed
  \/ Deliver

SpecCreate == Start({"ideal"}) /\ [][NextCreate]_vars

\* one signed-in session that edits and removes rows another session created,
\* while the events of the change stream are still on their way
NextRollback ==
  \/ SessionResolved
  \/ FetchServed
  \/ FetchDone
  \/ FetchFailed
  \/ OtherInsert
  \/ toggleTodo
  \/ updateTodoStatus
  \/ deleteTodo
  \/ clearCompleted
  \/ WriteServed
  \/ WriteDone
  \/ WriteFailed

SpecRollback == Start({"undo"}) /\ [][NextRollback]_vars

\* one signed-in session that toggles rows another session creates, with the
\* echo of its writes on the change stream
NextStream ==
  \/ SessionResolved
  \/ FetchServed
  \/ FetchDone
  \/ OtherInsert
  \/ toggleTodo
  \/ WriteServed
  \/ WriteDone
  \/ Deliver

SpecStream == Init /\ [][NextStream]_vars

\* one signed-in session whose fetch failed: its cache is fed by the change
\* stream alone, while it and another session toggle the same rows
NextUpdate ==
  \/ SessionResolved
  \/ FetchFailed
  \/ OtherInsert
  \/ OtherToggle
  \/ toggleTodo
  \/ WriteServed
  \/ WriteDone
  \/ Deliver

SpecUpdate == Init /\ [][NextUpdate]_vars

\* one signed-in session and another one that both delete rows
NextDelete ==
  \/ SessionResolved
  \/ FetchServed
  \/ FetchDone
  \/ OtherInsert
  \/ OtherDelete
  \/ deleteTodo
  \/ WriteServed
  \/ WriteDone
  \/ WriteFailed
  \/ Deliver

SpecDelete == Init /\ [][NextDelete]_vars

\* sessions that come and go while another session creates rows
NextGate ==
  \/ SessionResolved
  \/ SubmitCredentials
  \/ AuthAccepted
  \/ AuthAcceptedOther
  \/ AuthRejected
  \/ SignOut
  \/ SessionExpired
  \/ UserRefreshed
  \/ FetchServed
  \/ FetchDone
  \/ FetchFailed
  \/ OtherInsert
  \/ Deliver

SpecGate == Init /\ [][NextGate]_vars

\* startup with or without the two configuration values, sign-in, and a
\* session that issues creates until it expires
NextConfig ==
  \/ setNewTodo
  \/ SessionResolved
  \/ SubmitCredentials
  \/ AuthAccepted
  \/ SessionExpired
  \/ FetchServed
  \/ FetchDone
  \/ addTodo
  \/ WriteServed
  \/ WriteFailed

SpecConfig == Init /\ [][NextConfig]_vars

\* a session that only listens, while other tabs of the owner create, toggle,
\* set the status of, delete and clear rows
NextSync ==
  \/ SessionResolved
  \/ FetchServed
  \/ FetchDone
  \/ OtherInsert
  \/ OtherToggle
  \/ OtherStatus
  \/ OtherDelete
  \/ OtherClear
  \/ Deliver

SpecSync == Init /\ [][NextSync]_vars

\* one signed-in session that toggles and re-statuses rows another session
\* created, every write succeeding, before any event arrives
NextFields ==
  \/ SessionResolved
  \/ FetchServed
  \/ FetchDone
  \/ OtherInsert
  \/ toggleTodo
  \/ updateTodoStatus
  \/ WriteServed
  \/ WriteDone

SpecFields == Init /\ [][NextFields]_vars

\* one signed-in session that clears the rows another session completed, the
\* bulk delete succeeding or failing before any event arrives
NextClear ==
  \/ SessionResolved
  \/ FetchServed
  \/ FetchDone
  \/ OtherInsert
  \/ OtherToggle
  \/ clearCompleted
  \/ WriteServed
  \/ WriteDone
  \/ WriteFailed

SpecClear == Start({"undo"}) /\ [][NextClear]_vars

\* one signed-in session that toggles rows another session created, its writes
\* succeeding or failing, with the change stream
NextToggle ==
  \/ SessionResolved
  \/ FetchServed
  \/ FetchDone
  \/ OtherInsert
  \/ toggleTodo
  \/ WriteServed
  \/ WriteDone
  \/ WriteFailed
  \/ Deliver

SpecToggle == Start({"undo"}) /\ [][NextToggle]_vars

\* sessions that sign in and out, each with one fetch that succeeds or fails,
\* while another session creates rows
NextFetch ==
  \/ SessionResolved
  \/ SubmitCredentials
  \/ AuthAccepted
  \/ SignOut
  \/ FetchServed
  \/ FetchDone
  \/ FetchFailed
  \/ OtherInsert
  \/ Deliver

SpecFetch == Init /\ [][NextFetch]_vars

\* one session that creates, toggles, deletes and clears, each write answered or
\* failed, with no event handled in between
NextWrites ==
  \/ setNewTodo
  \/ SessionResolved
  \/ FetchFailed
  \/ addTodo
  \/ toggleTodo
  \/ deleteTodo
  \/ clearCompleted
  \/ WriteServed
  \/ WriteDone
  \/ WriteFailed

SpecWrites == Start({"undo"}) /\ [][NextWrites]_vars

\* one session that toggles, sets statuses, deletes and clears, every write
\* carried out and answered, with no event handled in between
NextSuccess ==
  \/ SessionResolved
  \/ FetchServed
  \/ FetchDone
  \/ OtherInsert
  \/ toggleTodo
  \/ updateTodoStatus
  \/ deleteTodo
  \/ clearCompleted
  \/ WriteServed
  \/ WriteDone

SpecSuccess == Init /\ [][NextSuccess]_vars

\* one session that types and creates, every insert carried out and answered,
\* with its echo on the change stream
NextAdd ==
  \/ SessionResolved
  \/ FetchServed
  \/ FetchDone
  \/ FetchFailed
  \/ setNewTodo
  \/ addTodo
  \/ WriteServed
  \/ WriteDone
  \/ Deliver

SpecAdd == Init /\ [][NextAdd]_vars

\* one session that types texts and blanks into the add form and submits them,
\* each insert answered or failed
NextForm ==
  \/ SessionResolved
  \/ FetchFailed
  \/ setNewTodo
  \/ setNewTodoBlank
  \/ addTodo
  \/ WriteServed
  \/ WriteDone
  \/ WriteFailed

SpecForm == Start({"form"}) /\ [][NextForm]_vars

\* one session that types, chooses statuses in the add form and submits, each
\* insert answered or failed, with no event handled
NextSelect ==
  \/ SessionResolved
  \/ FetchFailed
  \/ setNewTodo
  \/ SelectNewStatus
  \/ addTodo
  \/ WriteServed
  \/ WriteDone
  \/ WriteFailed

SpecSelect == Start({"undo"}) /\ [][NextSelect]_vars

\* one session that deletes and clears while another one creates and toggles;
\* the writes are carried out or fail, and the events are handled
NextPending ==
  \/ SessionResolved
  \/ FetchFailed
  \/ OtherInsert
  \/ OtherToggle
  \/ Deliver
  \/ deleteTodo
  \/ clearCompleted
  \/ WriteServed
  \/ WriteFailed

SpecPending == Init /\ [][NextPending]_vars

\* the account of the stored session and, after its sign-out, a second account
\* on the same client: both fetch and create, while another tab of the first
\* account creates rows
NextOwner ==
  \/ SessionResolved
  \/ SubmitCredentials
  \/ AuthAcceptedOther
  \/ SignOut
  \/ FetchServed
  \/ FetchDone
  \/ setNewTodo
  \/ addTodo
  \/ WriteServed
  \/ WriteDone
  \/ OtherInsert
  \/ Deliver

SpecOwner == Init /\ [][NextOwner]_vars

\* one signed-in session whose view is rendered some time after its cache has
\* changed, while other tabs of the owner create and toggle rows: it clears the
\* completed ones
NextStale ==
  \/ SessionResolved
  \/ FetchServed
  \/ FetchDone
  \/ OtherInsert
  \/ OtherToggle
  \/ Deliver
  \/ Render
  \/ clearCompleted
  \/ WriteServed
  \/ WriteDone
  \/ WriteFailed

SpecStale == Boot({}, TRUE) /\ [][NextStale]_vars

\* one signed-in session that toggles and re-statuses rows another session
\* created, again before the first write is answered, and all its writes fail
NextOverlap ==
  \/ SessionResolved
  \/ FetchServed
  \/ FetchDone
  \/ OtherInsert
  \/ toggleTodo
  \/ toggleTodoPending
  \/ updateTodoStatus
  \/ updateTodoStatusPending
  \/ WriteFailed

SpecOverlap == Init /\ [][NextOverlap]_vars

\* one signed-in session that creates, toggles, deletes and clears; every write
\* is carried out and answered in the order of the requests, and no event of the
\* change stream is handled
NextLocal ==
  \/ setNewTodo
  \/ SessionResolved
  \/ FetchServed
  \/ FetchDone
  \/ addTodo
  \/ toggleTodo
  \/ deleteTodo
  \/ clearCompleted
  \/ WriteServedNext
  \/ WriteDoneNext
  \/ ChannelClosed

SpecLocal == Start({"ideal"}) /\ [][NextLocal]_vars

\* ----------------------------------------------------------------- claims

\* C1: in every reachable state the cache holds at most one entry per record id.
C1_OneEntryPerId ==
  \A i, j \in 1..Len(todos) : todos[i].id = todos[j].id => i = j

\* C2: when the write of a toggle, set-status, delete or clear-completed action
\* fails and nothing else touched the cache since the action was issued, the
\* cache is again the cache before the action: same records, fields and order.
C2_RollbackRestores ==
  (/\ ev.op = "WriteErr"
   /\ ev.kind \in {"toggle", "status", "delete", "clear"}
   /\ undo # <<>>) => todos = undo[1]

\* C3: once every write of a run of successful writes has been answered, in
\* whatever order, the cache is the list the actions' pure transformations give
\* when applied in the order the actions were issued.
C3_Converges ==
  ("ideal" \in track /\ inst # 0 /\ writes = <<>>) => todos = ideal

\* C4: right after a user action has issued its remote write, the action's
\* mutation is already in the cache.
C4_MutationBeforeWrite ==
  /\ ev.op = "addTodo" =>
       Len(todos) = Len(prev) + 1 /\ SubSeq(todos, 2, Len(todos)) = prev
  /\ ev.op = "toggleTodo" => todos = Flip(prev, ev.id)
  /\ ev.op = "updateTodoStatus" => todos = StatusUpdater(prev, ev.id, ev.rec.status)
  /\ ev.op = "deleteTodo" => todos = DeleteUpdater(prev, ev.id)
  /\ ev.op = "clearCompleted" => todos = ClearUpdater(prev)

\* C5: an INSERT event whose id is already cached leaves the cache as it was,
\* whatever the payload and the cache; handling the same INSERT a second time
\* gives the cache the first handling gave.
C5_InsertIdempotent ==
  /\ (ev.op = "INSERT" /\ ev.kind = "handled") =>
       /\ Some(prev, ev.id) => todos = prev
       /\ InsertHandler(todos, ev.rec) = todos
  /\ \A new \in Todos :
       /\ Some(todos, new.id) => InsertHandler(todos, new) = todos
       /\ InsertHandler(InsertHandler(todos, new), new) = InsertHandler(todos, new)

\* an INSERT was handled for a cached id whose cached record differs from it
C5_Witness ==
  /\ ev.op = "INSERT"
  /\ ev.kind = "handled"
  /\ Some(prev, ev.id)
  /\ Find(prev, ev.id) # <<ev.rec>>

\* C6: a DELETE event leaves no cached record with its id and keeps every other
\* record, with its fields, in the same relative order; when the id is not
\* cached the cache is as it was; the todo view stays the view shown.
C6_DeleteRemovesMatch ==
  (ev.op = "DELETE" /\ ev.kind = "handled") =>
    LET others == {i \in 1..Len(prev) : prev[i].id # ev.id} IN
    /\ ~Some(todos, ev.id)
    /\ Len(todos) = Cardinality(others)
    /\ \A i \in others : todos[Cardinality({j \in others : j <= i})] = prev[i]
    /\ ~Some(prev, ev.id) => todos = prev
    /\ AppContent = "todo"
    /\ inst # 0

\* a DELETE was handled that removed a record which was not the first of the list
C6_Witness ==
  /\ ev.op = "DELETE"
  /\ ev.kind = "handled"
  /\ Len(prev) >= 2
  /\ prev[1].id # ev.id
  /\ Some(prev, ev.id)

\* C7: an UPDATE event puts the incoming record, as a whole, in the place of the
\* cached record with its id, pending optimistic edits of that record included;
\* every other record and every position stay; a cache without the id stays as
\* it was.
C7_UpdateReplaces ==
  (ev.op = "UPDATE" /\ ev.kind = "handled") =>
    /\ Len(todos) = Len(prev)
    /\ \A i \in 1..Len(prev) :
         todos[i] = IF prev[i].id = ev.id THEN ev.rec ELSE prev[i]
    /\ ~Some(prev, ev.id) => todos = prev

\* an UPDATE was handled while a toggle of the same record was in flight, and
\* it changed the value the toggle had put in the cache
C7_Witness ==
  /\ ev.op = "UPDATE"
  /\ ev.kind = "handled"
  /\ \E i \in 1..Len(writes) : writes[i].kind = "toggle" /\ writes[i].id = ev.id
  /\ \E k \in 1..Len(prev) :
       /\ prev[k].id = ev.id
       /\ prev[k].completed # ev.rec.completed
       /\ Len(prev) >= 2

\* C8: while no user is authenticated there is no active subscription, and a
\* step that issues the fetch is one that ends with a user authenticated and
\* the todo view mounted, with the subscription of that effect run active.
C8_OnlyWhileAuthenticated ==
  /\ user = NoUser => channel = {}
  /\ AppContent # "todo" => channel = {}
  /\ ev.kind = "effect" =>
       /\ user # NoUser
       /\ AppContent = "todo"
       /\ inst # 0
       /\ channel = {effects}

\* a session ended, by sign-out or expiry, after its effect had run
C8_Witness ==
  /\ ev.op \in {"SignOut", "SessionExpired"}
  /\ user = NoUser
  /\ effects > 0
  /\ stream # <<>>

\* C9: when no todo view is mounted no subscription is active, an active
\* subscription is the one of the latest effect run of the mounted view, and an
\* event published to a subscription that has been removed is dropped: the
\* cache of the session it was meant for, and of any later one, stays as it was.
C9_LateEventsDropped ==
  /\ inst = 0 => channel = {}
  /\ channel # {} => channel = {effects} /\ effects >= inst
  /\ (ev.op \in {"INSERT", "UPDATE", "DELETE"} /\ ev.kind = "late") =>
       todos = prev /\ rendered = prev

\* an INSERT published to the subscription of an ended session arrives in a
\* later session, whose loaded cache does not hold the record
C9_Witness ==
  /\ ev.op = "INSERT"
  /\ ev.kind = "late"
  /\ inst > 1
  /\ ~loading
  /\ ~Some(todos, ev.id)

\* C10: when one of the two configuration values is missing, the view is the
\* configuration notice whatever the authentication state is, no TodoApp is
\* mounted, the effect never ran, and no fetch, subscription or write exists.
C10_ConfigMissingBlocks ==
  ~(supabaseUrl /\ supabaseAnonKey) =>
    /\ AppContent = "config"
    /\ AppContent \notin {"auth", "todo"}
    /\ inst = 0
    /\ effects = 0
    /\ channel = {}
    /\ fetches = <<>>
    /\ writes = <<>>
    /\ stream = <<>>

\* one configuration value is set, the other is missing, and a user is
\* authenticated whose session was restored at startup
C10_Witness ==
  /\ supabaseUrl # supabaseAnonKey
  /\ user # NoUser
  /\ ~authLoading

\* C11: a change another session made is in this session's cache once its event
\* has been handled and no fetch is outstanding that could still bring it: a
\* created record that is still a row is cached, a deleted or cleared record is
\* not, and a toggled or re-statused record is cached as the row it still is.
C11_Synced ==
  (ev.kind = "handled" /\ ev.op \in {"INSERT", "UPDATE", "DELETE"} /\ fetches = <<>>) =>
    /\ (ev.op = "INSERT" /\ HasRow(ev.id)) => Some(todos, ev.id)
    /\ ev.op = "DELETE" => ~Some(todos, ev.id)
    /\ (ev.op = "UPDATE" /\ ev.rec \in db) => \E i \in 1..Len(todos) : todos[i] = ev.rec

\* C12: a toggle changes the completed flag of the record with its id and
\* nothing else; a set-status changes the status of the record with its id and
\* nothing else: the other field of that record, every other record, the
\* length and the order of the list stay.
C12_FieldsIndependent ==
  /\ ev.op = "toggleTodo" =>
       /\ Len(todos) = Len(prev)
       /\ \A i \in 1..Len(prev) :
            /\ prev[i].id # ev.id => todos[i] = prev[i]
            /\ prev[i].id = ev.id =>
                 /\ todos[i].id = prev[i].id
                 /\ todos[i].status = prev[i].status
                 /\ todos[i].completed = ~ev.rec.completed
  /\ ev.op = "updateTodoStatus" =>
       /\ Len(todos) = Len(prev)
       /\ \A i \in 1..Len(prev) :
            /\ prev[i].id # ev.id => todos[i] = prev[i]
            /\ prev[i].id = ev.id =>
                 /\ todos[i].id = prev[i].id
                 /\ todos[i].completed = prev[i].completed
                 /\ todos[i].status = ev.rec.status

\* the status of a completed record, not the only one cached, was set to 'done'
C12_Witness ==
  /\ ev.op = "updateTodoStatus"
  /\ ev.rec.status = "done"
  /\ Len(prev) >= 2
  /\ \E i \in 1..Len(prev) :
       /\ prev[i].id = ev.id
       /\ prev[i].completed
       /\ prev[i].status = "todo"
       /\ todos[i] = Todo(ev.id, TRUE, "done")

C14_ToggleRollback ==
  (ev.op = "WriteErr" /\ ev.kind = "toggle") =>
    /\ Len(todos) = Len(prev)
    /\ Cardinality({i \in 1..Len(todos) : todos[i].id = ev.id}) <= 1
    /\ undo # <<>> =>
         /\ Len(todos) = Len(undo[1])
         /\ \A i \in 1..Len(undo[1]) :
              undo[1][i].id = ev.id =>
                /\ todos[i].completed = undo[1][i].completed
                /\ todos[i] = undo[1][i]

\* the toggle of a record that was not completed failed: the optimistic TRUE
\* went back to FALSE, in a list of two
C14_Witness ==
  /\ ev.op = "WriteErr"
  /\ ev.kind = "toggle"
  /\ undo # <<>>
  /\ Len(prev) >= 2
  /\ \E i \in 1..Len(prev) :
       /\ prev[i].id = ev.id
       /\ prev[i].completed
       /\ ~todos[i].completed
       /\ ~undo[1][i].completed

\* C15: once the creates of a run of successful writes have all been answered,
\* the cache is in the order the fetch returns the same rows in: newest first,
\* [B, A] for A created before B.
C15_NewestFirst ==
  ("ideal" \in track /\ inst # 0 /\ ~loading /\ writes = <<>>) => todos = OrderDesc(db)

C19_DeleteRestoresPosition ==
  (ev.op = "WriteErr" /\ ev.kind = "delete" /\ undo # <<>>) =>
    \A i \in 1..Len(undo[1]) :
      undo[1][i].id = ev.id => (i <= Len(todos) /\ todos[i] = undo[1][i])

\* C20: the step that handles the successful answer of a toggle, set-status,
\* delete or clear-completed write leaves the cache, and what is rendered from
\* it, as it was: the optimistic state stays.
C20_SuccessKeepsCache ==
  (ev.op = "WriteOk" /\ ev.kind \in {"toggle", "status", "delete", "clear"}) =>
    (todos = prev /\ rendered = prev)

\* the successful answer of a delete has been handled while the cache holds
\* another record and no longer the deleted one
C20_Witness ==
  /\ ev.op = "WriteOk"
  /\ ev.kind = "delete"
  /\ todos # <<>>
  /\ ~Some(todos, ev.id)
  /\ ~HasRow(ev.id)
  /\ writes = <<>>

\* C21: when the successful answer of a create has been handled, the record the
\* backend returned, with the id the backend assigned, is the head of the cache
\* and the rest of the cache is what it was; no entry of the cache ever has an
\* id that the backend did not assign.
C21_CreateSeedsCache ==
  /\ (ev.op = "WriteOk" /\ ev.kind = "add") =>
       /\ todos # <<>>
       /\ todos[1] = ev.rec
       /\ Tail(todos) = prev
       /\ ev.rec.id \in 1..(nextId - 1)
  /\ \A i \in 1..Len(todos) : todos[i].id \in 1..(nextId - 1)

\* the answer of a second create has been handled: its record stands in front
\* of the first one
C21_Witness ==
  /\ ev.op = "WriteOk"
  /\ ev.kind = "add"
  /\ prev # <<>>
  /\ todos = <<ev.rec>> \o prev
  /\ ev.rec.id # prev[1].id
  /\ HasRow(ev.rec.id)

\* C22: a run of addTodo while the form's text is empty or blank, or while no
\* user is signed in, sends no write and leaves cache, requests and form as they
\* are; every insert on its way carries a text that is not empty and has no
\* blank at either end, the trimmed text of the form.
C22_BlankCreateIgnored ==
  [][/\ ((trim(newTodo) = <<>> \/ user = NoUser)
          /\ ev'.op = "addTodo" /\ <<ev', prev'>> # <<ev, prev>>) =>
            /\ ev'.kind = "ignored"
            /\ UNCHANGED <<todos, rendered, writes, db, stream, newTodo, newTodoStatus>>
     /\ (ev'.op = "addTodo" /\ ev'.kind = "add" /\ Len(writes') > Len(writes)) =>
            writes'[Len(writes')].text = trim(newTodo)
     /\ \A i \in 1..Len(writes') :
          writes'[i].kind = "add" =>
            /\ writes'[i].text # <<>>
            /\ Head(writes'[i].text) # " "
            /\ writes'[i].text[Len(writes'[i].text)] # " "
    ]_vars

\* Enter was pressed on a form that holds one blank: nothing went out
C22_Witness ==
  /\ ev.op = "addTodo"
  /\ ev.kind = "ignored"
  /\ newTodo = <<" ">>
  /\ writes = <<>>
  /\ todos = prev
  /\ inst # 0

\* C23: every insert carries completed = false and the status the form shows
\* when addTodo runs, one of todo, in-progress, done; the form's status is todo at
\* the mount, changes only by the user's choice, and is todo again once the
\* successful answer of a create has been handled; the created row has the
\* insert's values.
C23_CreatedFields ==
  [][/\ (ev'.op = "addTodo" /\ Len(writes') > Len(writes)) =>
          /\ writes'[Len(writes')].status = newTodoStatus
          /\ writes'[Len(writes')].completed = FALSE
     /\ \A i \in 1..Len(writes') :
          writes'[i].kind = "add" =>
            (writes'[i].status \in TodoStatus /\ ~writes'[i].completed)
     /\ newTodoStatus' # newTodoStatus =>
          (ev'.op = "SelectNewStatus" \/ newTodoStatus' = "todo")
     /\ (inst' # inst /\ inst' # 0) => newTodoStatus' = "todo"
     /\ (ev'.op = "WriteOk" /\ ev'.kind = "add" /\ Len(writes') < Len(writes)) =>
          /\ newTodoStatus' = "todo"
          /\ ~ev'.rec.completed
          /\ ev'.rec.status \in TodoStatus
          /\ ev'.rec \in db'
    ]_vars

\* a create with the status done has succeeded and the form shows todo again
C23_Witness ==
  /\ ev.op = "WriteOk"
  /\ ev.kind = "add"
  /\ ev.rec.status = "done"
  /\ ~ev.rec.completed
  /\ todos # <<>>
  /\ todos[1] = ev.rec
  /\ newTodoStatus = "todo"

\* C24: the step that handles the failed answer of a create leaves the cache,
\* the form's text and the form's status as they were; when the create was alone
\* in flight the cache is the one from before the action.
C24_CreateFailureKeepsForm ==
  [][(ev'.op = "WriteErr" /\ ev'.kind = "add" /\ Len(writes') < Len(writes)) =>
       /\ UNCHANGED <<todos, rendered, newTodo, newTodoStatus>>
       /\ undo' # <<>> => todos' = undo'[1]
    ]_vars

\* a create with a chosen status has failed after an earlier one succeeded: the
\* cache still holds the one record, the form still holds text and status
C24_Witness ==
  /\ ev.op = "WriteErr"
  /\ ev.kind = "add"
  /\ writes = <<>>
  /\ undo # <<>>
  /\ Len(todos) = 1
  /\ todos = undo[1]
  /\ trim(newTodo) # <<>>
  /\ newTodoStatus = "in-progress"

\* C25: an INSERT event handled while no cached record has its id makes the
\* record the head of the cache, in front of the cache as it was.
C25_InsertPrepends ==
  /\ (ev.op = "INSERT" /\ ev.kind = "handled" /\ ~Some(prev, ev.id)) =>
       todos = <<ev.rec>> \o prev
  /\ \A new \in Todos :
       ~Some(todos, new.id) =>
         /\ Head(InsertHandler(todos, new)) = new
         /\ Tail(InsertHandler(todos, new)) = todos

\* an INSERT for a new id was handled while the cache held another record
C25_Witness ==
  /\ ev.op = "INSERT"
  /\ ev.kind = "handled"
  /\ prev # <<>>
  /\ ~Some(prev, ev.id)
  /\ todos = <<ev.rec>> \o prev

C27_OwnRowsOnly ==
  /\ \A i \in 1..Len(todos) : todos[i].user_id = user
  /\ \A i \in 1..Len(rendered) : rendered[i].user_id = user

\* the second account is signed in with a record of its own in the cache, and
\* an event about a row of the first account, published to the first account's
\* subscription, has arrived and was dropped
C27_Witness ==
  /\ user = "u2"
  /\ inst # 0
  /\ todos # <<>>
  /\ ev.op = "INSERT"
  /\ ev.kind = "late"
  /\ ev.rec.user_id = "u1"
  /\ ev.rec \in db

\* C28: when the initial fetch is over, no select and no write is in flight and
\* no event is on its way, the records of the cache are the owner's rows of the
\* backend, field by field.
C28_QuiescentEqualsBackend ==
  (/\ inst # 0
   /\ ~loading
   /\ fetches = <<>>
   /\ writes = <<>>
   /\ stream = <<>>) => {todos[i] : i \in 1..Len(todos)} = Visible(db, user)

\* C29: what the change stream brought into the cache while the fetch was in
\* flight is still there when the fetch result has been stored: a record the
\* cache held that is still a row, with the row's fields, is still cached; and
\* when no event is left undelivered, no cached record is a row that was deleted
\* or an older version of a row that was updated.
C29_EventsSurviveFetch ==
  (ev.op = "FetchOk" /\ ev.id = inst) =>
    /\ \A i \in 1..Len(prev) :
         prev[i] \in db => \E j \in 1..Len(todos) : todos[j] = prev[i]
    /\ stream = <<>> => \A j \in 1..Len(todos) : todos[j] \in db

\* C30: right after a clear-completed action has issued its bulk delete, the ids
\* its optimistic step took out of the cache are the ids the delete carries, the
\* ids of the records kept for the revert.
C30_ClearSameIds ==
  (ev.op = "clearCompleted" /\ writes # <<>>) =>
    {prev[i].id : i \in 1..Len(prev)} \ {todos[i].id : i \in 1..Len(todos)}
      = SavedIds(writes[Len(writes)])

\* C31: where no write is carried out and no other session changes a row, the
\* backend's row is what the record was before the first action on it. Once the
\* last of the failed toggles and set-status writes on a record is answered,
\* the cached record is that row again.
C31_FailuresRestore ==
  (/\ ev.op = "WriteErr"
   /\ ev.kind \in {"toggle", "status"}
   /\ ~Pending(ev.id)) =>
     \A i \in 1..Len(todos) : todos[i].id = ev.id => todos[i] \in db

\* C32: once the write of a delete has been answered with success, the deleted
\* record is not in the cache, and no step brings it back: not the one that
\* handles the answer, and not the one that follows it, whatever event that
\* step handles.
C32_DeletedStaysGone ==
  [][/\ (ev'.op = "WriteOk" /\ ev'.kind = "delete") => ~Some(todos', ev'.id)
     /\ (ev.op = "WriteOk" /\ ev.kind = "delete") => ~Some(todos', ev.id)
    ]_vars

\* C33: at most one subscription is active at any time; after a step that
\* created one, it is the only one, every earlier one having been removed; and
\* none is active while no todo view is mounted.
C33_OneSubscription ==
  /\ Cardinality(channel) <= 1
  /\ ev.kind = "effect" => channel = {effects}
  /\ inst = 0 => channel = {}

\* the effect has run again for the mounted view, after a refresh of the user:
\* the subscription of its first run is gone, the new one is active
C33_Witness ==
  /\ ev.op = "UserRefreshed"
  /\ ev.kind = "effect"
  /\ inst # 0
  /\ effects > inst
  /\ channel = {effects}

\* C34: the view is the configuration notice when a configuration value is
\* missing, else the loading view while the session is being resolved, else
\* the sign-in view when no user is authenticated, else the todo view; the todo
\* view is shown, and TodoApp mounted, exactly when the configuration is
\* present, the session is resolved and a user is authenticated.
C34_ViewPriority ==
  /\ ~(supabaseUrl /\ supabaseAnonKey) => AppContent = "config"
  /\ (supabaseUrl /\ supabaseAnonKey /\ authLoading) => AppContent = "loading"
  /\ (supabaseUrl /\ supabaseAnonKey /\ ~authLoading /\ user = NoUser) =>
       AppContent = "auth"
  /\ AppContent = "todo" <=>
       (supabaseUrl /\ supabaseAnonKey /\ ~authLoading /\ user # NoUser)
  /\ inst # 0 <=> AppContent = "todo"
  /\ AppContent \in {"config", "loading", "auth", "todo"}

\* a user has signed in from the sign-in view: the todo view is shown
C34_Witness ==
  /\ ev.op = "AuthAccepted"
  /\ prev = <<>>
  /\ AppContent = "todo"
  /\ inst # 0
  /\ user # NoUser

C36_LoadingEndsOnce ==
  [][/\ (ev'.op \in {"FetchOk", "FetchErr"} /\ inst' # 0 /\ ev'.id = inst') => ~loading'
     /\ (inst # 0 /\ inst' = inst /\ ~loading) => ~loading'
    ]_vars

\* the effect has run a second time for the mounted view and its fetch has
\* failed: the view still is not loading
C36_Witness ==
  /\ ev.op = "FetchErr"
  /\ ev.id = inst
  /\ inst # 0
  /\ effects > inst
  /\ fetches = <<>>
  /\ ~loading

\* C37: in every state of the view the number of completed records lies
\* between 0 and the number of records; the percentage is computed only when
\* there is a record, and then lies between 0 and 100, at 0 exactly when nothing
\* is completed and at 100 exactly when everything is; the clear-completed
\* control is offered exactly when a record is completed, and a clear-completed
\* action comes from a view that offered it.
C37_CountsAndPercentage ==
  /\ 0 <= completedCount
  /\ completedCount <= totalCount
  /\ ProgressShown(totalCount) => totalCount > 0
  /\ totalCount > 0 => ProgressShown(totalCount)
  /\ ProgressShown(totalCount) =>
       /\ Percentage(completedCount, totalCount) \in 0..100
       /\ Percentage(completedCount, totalCount) = 0 <=> completedCount = 0
       /\ Percentage(completedCount, totalCount) = 100 <=> completedCount = totalCount
  /\ ClearOffered(completedCount) <=> \E i \in 1..Len(rendered) : rendered[i].completed
  /\ ev.op = "clearCompleted" => \E i \in 1..Len(prev) : prev[i].completed

\* one of two records is completed: the bar stands at 50 percent and the clear
\* control is offered
C37_Witness ==
  /\ inst # 0
  /\ ~loading
  /\ totalCount = 2
  /\ completedCount = 1
  /\ Percentage(completedCount, totalCount) = 50
  /\ ClearOffered(completedCount)

====
